---- MODULE Spec2Model ----
(***************************************************************************)
(* The scheduled-query result store of osquery/core/query.cpp: the        *)
(* epoch / counter state machine (getQueryStatus, getQueryCounter,         *)
(* incrementCounter), the two commit entry points (addNewResults,          *)
(* addNewEvents) and the two renderings of a QueryLogItem                  *)
(* (serializeQueryLogItemJSON, serializeQueryLogItemAsEventsJSON).         *)
(***************************************************************************)
EXTENDS Integers, Sequences, FiniteSets, TLC

\* ------------------------------------------------------------------ bounds
MaxRows == 2
MaxEpoch == 1
MaxCounter == 2
MaxCommits == 3

\* ------------------------------------------------------- input universes
Names == {"q"}
Queries == {"SELECT 1", "SELECT 2"}
RowValues == {"r1", "r2"}
Epochs == 0..MaxEpoch

\* The sorted iteration order of a multiset of rows.
RowOrder == <<"r1", "r2">>

RowIndex(r) == CHOOSE i \in 1..Len(RowOrder) : RowOrder[i] = r

\* QueryDataTyped: an ordered sequence of rows, duplicates allowed.  The
\* inputs are the results of at most MaxRows rows, one order for each.
QueryData ==
  {qd \in UNION {[1..n -> RowValues] : n \in 0..MaxRows} :
     \A i \in 1..(Len(qd) - 1) : RowIndex(qd[i]) <= RowIndex(qd[i + 1])}

\* The values a read of an uninitialized uint64_t member can produce.
Indeterminate == {0, MaxCounter + 2}

\* Marks a uint64_t member that was never assigned.
Uninitialized == 0 - 1

MaxNum == MaxCounter + MaxEpoch + 4

\* --------------------------------------------------------------- database
\* The keys of the kQueries domain used for a query name.
KeysOf(name) == {name, name \o "epoch", name \o "counter", "query." \o name}

\* A second query name, whose result-set key is the query-text key of the
\* first.
OtherNames == {"query.q"}

AllNames == Names \cup OtherNames

Keys == UNION {KeysOf(n) : n \in AllNames}

NoValue == [kind |-> "none"]

Text(s) == [kind |-> "text", s |-> s]

\* serializeQueryDataJSON: the rows as a JSON array, in result order.
serializeQueryDataJSON(qd) == [kind |-> "json", rows |-> qd]

EmptyDatabase == [k \in Keys |-> NoValue]

\* What one call has not read.
NotRead == [kind |-> "unread"]

NothingRead == [value |-> [k \in Keys |-> NotRead], scanned |-> FALSE,
                keys |-> {}]

\* The store operations that fail during one call: reads and writes by key,
\* and the key scan.
NoFaults == [read |-> {}, write |-> {}, scan |-> FALSE]

Faults ==
  {NoFaults}
    \cup {[NoFaults EXCEPT !.read = {k}] : k \in Keys}
    \cup {[NoFaults EXCEPT !.write = {k}] : k \in Keys}
    \cup {[NoFaults EXCEPT !.scan = TRUE]}

\* What a call finds when its read fails.
ReadFailed == [kind |-> "failed"]

\* The database as one call works on it: db is the store, writes the keys
\* the call has written (in order), reads what the call found in the store on
\* its first look at each key, before any write of its own, faults the
\* operations the store fails, failed the operations that did fail (in
\* order), status the Status of the last setDatabaseValue.
FaultyCall(database, faults) ==
  [db |-> database, writes |-> <<>>, reads |-> NothingRead,
   faults |-> faults, failed |-> <<>>, status |-> TRUE]

Call(database) == FaultyCall(database, NoFaults)

Written(st, key) == \E i \in 1..Len(st.writes) : st.writes[i] = key

\* getDatabaseValue: status.ok() iff the read succeeds and the key holds a
\* value; a failed read leaves the output string empty.
getDatabaseValue(st, key) ==
  IF key \in st.faults.read
  THEN [ok |-> FALSE,
        raw |-> NoValue,
        st |-> [st EXCEPT !.failed = Append(@, "get " \o key),
                          !.reads.value[key] =
                            IF @ = NotRead /\ ~Written(st, key)
                            THEN ReadFailed ELSE @]]
  ELSE [ok |-> st.db[key].kind # "none",
        raw |-> st.db[key],
        st |-> IF st.reads.value[key] = NotRead /\ ~Written(st, key)
               THEN [st EXCEPT !.reads.value[key] = st.db[key]]
               ELSE st]

\* setDatabaseValue: the value is stored unless the write fails; the Status
\* is left in st.status.
setDatabaseValue(st, key, value) ==
  IF key \in st.faults.write
  THEN [st EXCEPT !.failed = Append(@, "set " \o key), !.status = FALSE]
  ELSE [st EXCEPT !.db[key] = value, !.writes = Append(@, key),
                  !.status = TRUE]

\* scanDatabaseKeys(kQueries, results): every key that holds a value; a
\* failed scan leaves results empty.
scanDatabaseKeys(st) ==
  LET found == IF st.faults.scan THEN {}
               ELSE {k \in Keys : st.db[k].kind # "none"}
      st1 == IF st.faults.scan
             THEN [st EXCEPT !.failed = Append(@, "scan")]
             ELSE st
  IN [keys |-> found,
      st |-> IF st1.reads.scanned THEN st1
             ELSE [st1 EXCEPT !.reads.scanned = TRUE, !.reads.keys = found]]

\* ----------------------------------------------------- decimal conversion
Digit == <<"0", "1", "2", "3", "4", "5", "6", "7", "8", "9">>

RECURSIVE to_string(_)
to_string(n) ==
  IF n < 10 THEN Digit[n + 1] ELSE to_string(n \div 10) \o Digit[(n % 10) + 1]

\* std::stoull on the decimal text of a stored number.
Numerals == {to_string(n) : n \in 0..MaxNum}

Parsed == [raw \in Numerals |-> CHOOSE n \in 0..MaxNum : to_string(n) = raw]

stoull(raw) == Parsed[raw]

\* ------------------------------------------------------------ row multisets
\* A QueryDataSet (std::multiset of rows): the multiplicity of every row.
EmptyBag == [r \in RowValues |-> 0]

SeqToBag(s) ==
  [r \in RowValues |-> Cardinality({i \in 1..Len(s) : s[i] = r})]

BagPlus(a, b) == [r \in RowValues |-> a[r] + b[r]]

BagMinus(a, b) ==
  [r \in RowValues |-> IF a[r] > b[r] THEN a[r] - b[r] ELSE 0]

\* deserializeQueryDataJSON: the stored JSON array as a QueryDataSet.
deserializeQueryDataJSON(raw) ==
  [ok |-> raw.kind = "json",
   results |-> IF raw.kind = "json" THEN SeqToBag(raw.rows) ELSE EmptyBag]

RECURSIVE Repeat(_, _)
Repeat(r, n) == IF n = 0 THEN <<>> ELSE <<r>> \o Repeat(r, n - 1)

RECURSIVE BagToSeqFrom(_, _)
BagToSeqFrom(bag, i) ==
  IF i > Len(RowOrder) THEN <<>>
  ELSE Repeat(RowOrder[i], bag[RowOrder[i]]) \o BagToSeqFrom(bag, i + 1)

BagToSeq(bag) == BagToSeqFrom(bag, 1)

\* diff(old, current): every current row is matched against (and erased from)
\* the old multiset or reported as added; what is left of old is removed.
RECURSIVE diffFrom(_, _, _)
diffFrom(old, current, added) ==
  IF current = <<>> THEN [added |-> added, removed |-> BagToSeq(old)]
  ELSE IF old[Head(current)] > 0
       THEN diffFrom([old EXCEPT ![Head(current)] = @ - 1], Tail(current), added)
       ELSE diffFrom(old, Tail(current), Append(added, Head(current)))

diff(old, current) == diffFrom(old, current, <<>>)

EmptyDiff == [added |-> <<>>, removed |-> <<>>]

DiffEmpty(dr) == dr.added = <<>> /\ dr.removed = <<>>

\* ------------------------------------------------------------- QueryLogItem
\* A QueryLogItem as its caller constructs it: epoch set by the caller, the
\* members with initializers at their defaults, previous_remaining_counter
\* (no initializer) not initialized.
NewItem(name, epoch, snapshot) ==
  [name |-> name,
   results |-> EmptyDiff,
   previous_remaining |-> EmptyDiff,
   snapshot_results |-> snapshot,
   epoch |-> epoch,
   previous_epoch |-> 0,
   counter |-> 0,
   previous_remaining_counter |-> Uninitialized]

\* --------------------------------------------------- epoch / counter state
getPreviousEpoch(st, name) ==
  LET status == getDatabaseValue(st, name \o "epoch")
  IN [st |-> status.st,
      epoch |-> IF status.ok THEN stoull(status.raw.s) ELSE 0]

\* getQueryCounter returning the stored counter as it is.
getQueryCounterNoIncrement(st, name, all_records, new_query) ==
  IF all_records THEN [st |-> st, counter |-> 0]
  ELSE IF new_query THEN [st |-> st, counter |-> 0 + 1]
  ELSE LET status == getDatabaseValue(st, name \o "counter")
       IN [st |-> status.st,
           counter |-> IF status.ok THEN stoull(status.raw.s) ELSE 0]

\* getQueryCounter without the all_records reset.
getQueryCounterNoAllRecords(st, name, all_records, new_query) ==
  IF new_query THEN [st |-> st, counter |-> 0 + 1]
  ELSE LET status == getDatabaseValue(st, name \o "counter")
       IN [st |-> status.st,
           counter |-> IF status.ok THEN stoull(status.raw.s) + 1 ELSE 0]

getQueryCounter(st, name, all_records, new_query) ==
  IF all_records THEN [st |-> st, counter |-> 0]
  ELSE IF new_query THEN [st |-> st, counter |-> 0 + 1]
  ELSE LET status == getDatabaseValue(st, name \o "counter")
       IN [st |-> status.st,
           counter |-> IF status.ok THEN stoull(status.raw.s) + 1 ELSE 0]

\* getPreviousQueryResults that finds an empty result set.
getPreviousQueryResultsEmpty(st, name) ==
  LET status == getDatabaseValue(st, name)
  IN [ok |-> status.ok, results |-> EmptyBag, st |-> status.st]

getPreviousQueryResults(st, name) ==
  LET status == getDatabaseValue(st, name)
      parsed == deserializeQueryDataJSON(status.raw)
  IN IF ~status.ok
     THEN [ok |-> FALSE, results |-> EmptyBag, st |-> status.st]
     ELSE [ok |-> parsed.ok, results |-> parsed.results, st |-> status.st]

getStoredQueryNames(st) == scanDatabaseKeys(st)

isQueryNameInDatabase(st, name) ==
  LET names == getStoredQueryNames(st)
  IN [found |-> name \in names.keys, st |-> names.st]

saveQuery(st, name, query) ==
  setDatabaseValue(st, "query." \o name, Text(query))

\* isNewQuery with the comparison inverted.
isNewQueryInverted(st, name, query) ==
  LET status == getDatabaseValue(st, "query." \o name)
      stored == IF status.ok THEN status.raw ELSE Text("")
  IN [changed |-> stored = Text(query), st |-> status.st]

\* The stored string is compared with the query text whatever wrote it: the
\* serialized rows another name stored under the key equal no query text.
isNewQuery(st, name, query) ==
  LET status == getDatabaseValue(st, "query." \o name)
      stored == IF status.ok THEN status.raw ELSE Text("")
  IN [changed |-> stored # Text(query), st |-> status.st]

\* getQueryStatus that does not save the query text on the first encounter.
getQueryStatusNoSave(st, name, query, epoch) ==
  LET previous == getPreviousEpoch(st, name)
      known == isQueryNameInDatabase(previous.st, name)
      altered == isNewQuery(known.st, name, query)
  IN IF ~known.found
     THEN [st |-> known.st, previous_epoch |-> previous.epoch,
           new_epoch |-> TRUE, new_query |-> TRUE]
     ELSE IF previous.epoch # epoch
     THEN [st |-> known.st, previous_epoch |-> previous.epoch,
           new_epoch |-> TRUE, new_query |-> FALSE]
     ELSE IF altered.changed
     THEN [st |-> saveQuery(altered.st, name, query),
           previous_epoch |-> previous.epoch,
           new_epoch |-> FALSE, new_query |-> TRUE]
     ELSE [st |-> altered.st, previous_epoch |-> previous.epoch,
           new_epoch |-> FALSE, new_query |-> FALSE]

getQueryStatus(st, name, query, epoch) ==
  LET previous == getPreviousEpoch(st, name)
      known == isQueryNameInDatabase(previous.st, name)
      altered == isNewQuery(known.st, name, query)
  IN IF ~known.found
     THEN [st |-> saveQuery(known.st, name, query),
           previous_epoch |-> previous.epoch,
           new_epoch |-> TRUE, new_query |-> TRUE]
     ELSE IF previous.epoch # epoch
     THEN [st |-> known.st, previous_epoch |-> previous.epoch,
           new_epoch |-> TRUE, new_query |-> FALSE]
     ELSE IF altered.changed
     THEN [st |-> saveQuery(altered.st, name, query),
           previous_epoch |-> previous.epoch,
           new_epoch |-> FALSE, new_query |-> TRUE]
     ELSE [st |-> altered.st, previous_epoch |-> previous.epoch,
           new_epoch |-> FALSE, new_query |-> FALSE]

\* incrementCounter that does not persist the counter.
incrementCounterNoPersist(st, name, all_records, new_query) ==
  LET got == getQueryCounter(st, name, all_records, new_query)
  IN [ok |-> TRUE, st |-> got.st, counter |-> got.counter]

incrementCounter(st, name, all_records, new_query) ==
  LET got == getQueryCounter(st, name, all_records, new_query)
      set == setDatabaseValue(got.st, name \o "counter",
                              Text(to_string(got.counter)))
  IN [ok |-> set.status, st |-> set, counter |-> got.counter]

\* ------------------------------------------------- the locals of a commit
\* A commit in progress: the database as the call works on it, the item, the
\* locals new_epoch, new_query and update_db, and, once the call has
\* returned early (done), the Status it returned (ok).
\* getQueryStatus(item.epoch, item.previous_epoch, new_epoch, new_query).
withQueryStatus(st0, name, query, item0) ==
  LET qs == getQueryStatus(st0, name, query, item0.epoch)
  IN [st |-> qs.st,
      item |-> [item0 EXCEPT !.previous_epoch = qs.previous_epoch],
      new_epoch |-> qs.new_epoch, new_query |-> qs.new_query,
      update_db |-> TRUE, ok |-> TRUE, done |-> FALSE]

\* auto status = setDatabaseValue(...); if (!status.ok()) return status;
returnUnlessOk(f, st) ==
  [f EXCEPT !.st = st, !.ok = st.status, !.done = ~st.status]

\* auto status = incrementCounter(..., item.counter);
\* if (!status.ok()) return status;
withCounter(f, inc) ==
  [f EXCEPT !.st = inc.st, !.item.counter = inc.counter,
            !.ok = inc.ok, !.done = ~inc.ok]

\* auto status = incrementCounter(..., item.previous_remaining_counter);
\* if (!status.ok()) return status;
withPreviousRemainingCounter(f, inc) ==
  [f EXCEPT !.st = inc.st, !.item.previous_remaining_counter = inc.counter,
            !.ok = inc.ok, !.done = ~inc.ok]

\* ------------------------------------------------------------ addNewEvents
\* lines 134-139: a new epoch resets the stored result set.
addNewEventsReset(f, name) ==
  IF f.new_epoch
  THEN returnUnlessOk(f, setDatabaseValue(f.st, name,
                                          serializeQueryDataJSON(<<>>)))
  ELSE f

\* lines 140-147: the rows are the added rows; they get a counter if any.
addNewEventsCount(f, name, current_qd) ==
  IF f.done THEN f
  ELSE IF current_qd # <<>>
  THEN withCounter([f EXCEPT !.item.results.added = current_qd],
                   incrementCounter(f.st, name, FALSE,
                                    f.new_epoch \/ f.new_query))
  ELSE [f EXCEPT !.item.results.added = current_qd]

addNewEvents(st0, name, query, current_qd, item0) ==
  addNewEventsCount(
    addNewEventsReset(withQueryStatus(st0, name, query, item0), name),
    name, current_qd)

\* ----------------------------------------------------------- addNewResults
\* lines 171-193: the differential against the rows of the last run.
addNewResultsPrevious(f, prev, current_qd) ==
  IF ~prev.ok
  THEN [f EXCEPT !.st = prev.st, !.ok = FALSE, !.done = TRUE]
  ELSE IF f.new_epoch
  THEN [f EXCEPT !.st = prev.st,
                 !.item.previous_remaining = diff(prev.results, current_qd),
                 !.item.results.added = current_qd]
  ELSE [f EXCEPT !.st = prev.st,
                 !.item.results = diff(prev.results, current_qd),
                 !.update_db = ~DiffEmpty(diff(prev.results, current_qd))]

\* lines 170-197: the item's diffs.
addNewResultsDiff(f, name, current_qd, calculate_diff) ==
  IF ~f.new_query /\ calculate_diff
  THEN addNewResultsPrevious(f, getPreviousQueryResults(f.st, name),
                             current_qd)
  ELSE [f EXCEPT !.item.results.added = current_qd]

\* lines 212-216: the epoch of the stored result set.
addNewResultsEpoch(f, name) ==
  IF f.done THEN f
  ELSE returnUnlessOk(f, setDatabaseValue(f.st, name \o "epoch",
                                          Text(to_string(f.item.epoch))))

\* lines 199-217: the result set and its epoch (target_gd is always the full
\* current query data).
addNewResultsStore(f, name, current_qd) ==
  IF f.done \/ ~f.update_db THEN f
  ELSE addNewResultsEpoch(
         returnUnlessOk(f, setDatabaseValue(f.st, name,
                                            serializeQueryDataJSON(current_qd))),
         name)

\* lines 219-224: the counter of the previous epoch's remaining diff.
addNewResultsFlush(f, name) ==
  IF f.done \/ ~(f.new_epoch /\ ~DiffEmpty(f.item.previous_remaining))
  THEN f
  ELSE withPreviousRemainingCounter(
         f, incrementCounter(f.st, name, FALSE, FALSE))

\* lines 226-232: the counter of the primary result.
addNewResultsCount(f, name) ==
  IF f.done \/ ~(f.update_db \/ f.new_epoch \/ f.new_query) THEN f
  ELSE withCounter(f, incrementCounter(f.st, name, f.new_epoch,
                                       f.new_query))

addNewResults(st0, name, query, current_qd, item0, calculate_diff) ==
  addNewResultsCount(
    addNewResultsFlush(
      addNewResultsStore(
        addNewResultsDiff(withQueryStatus(st0, name, query, item0),
                          name, current_qd, calculate_diff),
        name, current_qd),
      name),
    name)

\* addNewResults(qd, epoch, counter): the overload with a counter output
\* parameter; counter is the value the caller's variable holds afterwards.
addNewResultsCounter(st0, name, query, qd, epoch, counter) ==
  LET item0 == [NewItem(name, 0, <<>>) EXCEPT !.epoch = epoch]
      r == addNewResults(st0, name, query, qd, item0, FALSE)
  IN [ok |-> r.ok, st |-> r.st, item |-> r.item, counter |-> counter,
      new_epoch |-> r.new_epoch, new_query |-> r.new_query]

\* ------------------------------------------------------------ serialization
\* addLegacyFieldsAndDecorations: the epoch / previous_epoch / counter trio of
\* the pass being rendered.
\* addLegacyFieldsAndDecorations that renders the current trio in both passes.
addLegacyFieldsCurrentOnly(is_previous_remaining, item, obj) ==
  [obj EXCEPT !.name = item.name,
              !.epoch = item.epoch,
              !.previous_epoch = item.previous_epoch,
              !.counter = item.counter]

addLegacyFieldsAndDecorations(is_previous_remaining, item, obj) ==
  [obj EXCEPT
     !.name = item.name,
     !.epoch = IF is_previous_remaining THEN item.previous_epoch
               ELSE item.epoch,
     !.previous_epoch = item.previous_epoch,
     !.counter = IF is_previous_remaining THEN item.previous_remaining_counter
                 ELSE item.counter]

\* A JSON object before any member is added; members holds the names of the
\* members present.
newObject ==
  [members |-> {}, added |-> <<>>, removed |-> <<>>, snapshot |-> <<>>,
   action |-> "", columns |-> "", name |-> "", epoch |-> 0,
   previous_epoch |-> 0, counter |-> 0]

LegacyMembers == {"name", "hostIdentifier", "calendarTime", "unixTime", "epoch",
                  "previous_epoch", "counter", "numerics"}

\* serializeQueryLogItem asking for added and removed rows before it renders
\* a differential.
serializeQueryLogItemBothNeeded(is_previous_remaining, item) ==
  LET dr == IF is_previous_remaining THEN item.previous_remaining
            ELSE item.results
      body == IF Len(dr.added) > 0 /\ Len(dr.removed) > 0
              THEN [newObject EXCEPT !.members = {"diffResults"},
                                     !.added = dr.added,
                                     !.removed = dr.removed]
              ELSE [newObject EXCEPT !.members = {"snapshot", "action"},
                                     !.snapshot = item.snapshot_results,
                                     !.action = "snapshot"]
      doc == addLegacyFieldsAndDecorations(is_previous_remaining, item, body)
  IN [ok |-> TRUE,
      doc |-> [doc EXCEPT !.members = body.members \cup LegacyMembers]]

serializeQueryLogItem(is_previous_remaining, item) ==
  LET dr == IF is_previous_remaining THEN item.previous_remaining
            ELSE item.results
      body == IF Len(dr.added) > 0 \/ Len(dr.removed) > 0
              THEN [newObject EXCEPT !.members = {"diffResults"},
                                     !.added = dr.added,
                                     !.removed = dr.removed]
              ELSE [newObject EXCEPT !.members = {"snapshot", "action"},
                                     !.snapshot = item.snapshot_results,
                                     !.action = "snapshot"]
      doc == addLegacyFieldsAndDecorations(is_previous_remaining, item, body)
  IN [ok |-> TRUE,
      doc |-> [doc EXCEPT !.members = body.members \cup LegacyMembers]]

\* serializeEvent: one event document for one row.
serializeEvent(is_previous_remaining, item, row, action) ==
  LET obj == addLegacyFieldsAndDecorations(is_previous_remaining, item,
                                           newObject)
  IN [obj EXCEPT !.members = LegacyMembers \cup {"columns", "action"},
                 !.columns = row,
                 !.action = action]

RECURSIVE EventsOf(_, _, _, _)
EventsOf(is_previous_remaining, item, rows, action) ==
  IF rows = <<>> THEN <<>>
  ELSE <<serializeEvent(is_previous_remaining, item, Head(rows), action)>>
       \o EventsOf(is_previous_remaining, item, Tail(rows), action)

\* _serializeQueryLogItemAsEvents appends to doc, the JSON array built so far.
\* serializeDiffResults adds the member "removed" before the member "added".
serializeQueryLogItemAsEventsPass(is_previous_remaining, item, doc) ==
  LET dr == IF is_previous_remaining THEN item.previous_remaining
            ELSE item.results
  IN IF dr.added # <<>> \/ dr.removed # <<>>
     THEN [ok |-> TRUE,
           doc |-> doc
                   \o EventsOf(is_previous_remaining, item, dr.removed, "removed")
                   \o EventsOf(is_previous_remaining, item, dr.added, "added")]
     ELSE IF item.snapshot_results # <<>>
     THEN [ok |-> TRUE,
           doc |-> doc \o EventsOf(is_previous_remaining, item,
                                   item.snapshot_results, "snapshot")]
     ELSE [ok |-> FALSE, doc |-> doc]

serializeQueryLogItemAsEvents(item, doc) ==
  LET status == serializeQueryLogItemAsEventsPass(TRUE, item, doc)
  IN IF ~status.ok THEN status
     ELSE serializeQueryLogItemAsEventsPass(FALSE, item, status.doc)

\* JSON::toString: the text of a document; it is never the empty string.
toString(doc) == [len |-> 2 + Cardinality(doc.members), doc |-> doc]

EmptyString == [len |-> 0, doc |-> newObject]

serializeQueryLogItemJSONPass(is_previous_remaining, item, json) ==
  LET status == serializeQueryLogItem(is_previous_remaining, item)
  IN IF ~status.ok THEN [ok |-> FALSE, json |-> json]
     ELSE [ok |-> TRUE, json |-> toString(status.doc)]

serializeQueryLogItemJSON(item, json_items) ==
  LET first == serializeQueryLogItemJSONPass(TRUE, item, EmptyString)
      items1 == IF first.json.len # 0 THEN Append(json_items, first.json.doc)
                ELSE json_items
      second == serializeQueryLogItemJSONPass(FALSE, item, first.json)
      items2 == IF second.json.len # 0 THEN Append(items1, second.json.doc)
                ELSE items1
  IN IF ~first.ok THEN [ok |-> FALSE, items |-> json_items]
     ELSE IF ~second.ok THEN [ok |-> FALSE, items |-> items1]
     ELSE [ok |-> TRUE, items |-> items2]

serializeQueryLogItemAsEventsJSON(item, items) ==
  LET status == serializeQueryLogItemAsEvents(item, <<>>)
  IN IF ~status.ok THEN [ok |-> FALSE, items |-> items]
     ELSE [ok |-> TRUE, items |-> items \o status.doc]

\* ------------------------------------------------------------ log consumer
\* A consumer of the legacy documents that applies, in emission order, the
\* differential of every document whose counter is not 0: it removes the
\* removed rows, then adds the added rows.
RECURSIVE ConsumerApply(_, _)
ConsumerApply(view, docs) ==
  IF docs = <<>> THEN view
  ELSE LET d == Head(docs)
       IN ConsumerApply(IF d.counter # 0 /\ "diffResults" \in d.members
                        THEN BagPlus(BagMinus(view, SeqToBag(d.removed)),
                                     SeqToBag(d.added))
                        ELSE view,
                        Tail(docs))

\* commits counts the commits logged so far, up to MaxCommits.
NoConsumer ==
  [started |-> FALSE, query |-> "", view |-> EmptyBag, commits |-> 0]

\* The consumer after one more addNewResults commit: the rows of the first
\* commit are its baseline, later commits reach it as legacy documents.
ConsumerAfter(c, query, current_qd, docs) ==
  IF ~c.started
  THEN [started |-> TRUE, query |-> query, view |-> SeqToBag(current_qd),
        commits |-> 1]
  ELSE [c EXCEPT !.view = ConsumerApply(c.view, docs),
                 !.commits = IF @ < MaxCommits THEN @ + 1 ELSE @]

\* An item as a reader observes it: a read of a member that was never
\* assigned yields an indeterminate value.
Observe(it, garbage) ==
  IF it.previous_remaining_counter = Uninitialized
  THEN [it EXCEPT !.previous_remaining_counter = garbage]
  ELSE it

\* -------------------------------------------------------------------- state
VARIABLES
  db,        \* the kQueries domain of the database: key -> stored value
  reads,     \* what the last call found in the database before writing
  writes,    \* the keys the last call wrote, in order
  call,      \* the last call: entry point, arguments, status, query status
  item,      \* the QueryLogItem the last call filled in
  out,       \* the rendering of item in progress: form, status, documents
  consumer,  \* per name, the log consumer's view of the result set
  hist,      \* what a caller remembers of its earlier commits for a name
  threads,   \* two addNewResults calls in progress, one store operation at
             \* a time, and which of them wrote each key last
  alone      \* per name, the store and the last call of a run of its own
             \* commits that no other name shares

vars == <<db, reads, writes, call, item, out, consumer, hist, threads,
          alone>>

\* counter is the value a call returned or left in its counter output
\* parameter, failed the store operations that failed during the call.
NoCall ==
  [op |-> "none", name |-> "", query |-> "", epoch |-> 0, rows |-> <<>>,
   calculate_diff |-> FALSE, ok |-> TRUE, new_epoch |-> FALSE,
   new_query |-> FALSE, all_records |-> FALSE, counter |-> 0,
   failed |-> <<>>]

\* The caller's record of a run of commits: the entry point, epoch and query
\* text of the run, the number of its commits (up to MaxCommits), whether the
\* last one was assigned a counter, the last assigned counter and the one
\* assigned before it (-1: none), the last epoch supplied, the epoch of the
\* last legacy document logged (-1: none) and whether a logged document
\* carried a smaller epoch than the one before it.
NoHistory ==
  [op |-> "none", epoch |-> 0, query |-> "", n |-> 0, assigned |-> FALSE,
   last |-> 0 - 1, before |-> 0 - 1, supplied |-> 0, doc_epoch |-> 0 - 1,
   backward |-> FALSE]

NoOutput == [form |-> "none", ok |-> TRUE, items |-> <<>>]

\* The two calls in progress.
Threads == {1, 2}

\* A call that has not started: its arguments, its item and its locals; st is
\* the store the call works on during one of its store operations.
IdleThread ==
  [pc |-> "idle", query |-> "", epoch |-> 0, rows |-> <<>>,
   calculate_diff |-> FALSE, st |-> Call(EmptyDatabase),
   item |-> NewItem("", 0, <<>>), new_epoch |-> FALSE, new_query |-> FALSE,
   update_db |-> TRUE, ok |-> TRUE, done |-> FALSE, assigned |-> FALSE]

\* owner: the call that wrote the key last (0: neither); interleaved: a call
\* made a store operation while the other was between its first and its last.
NoThreads ==
  [frame |-> [t \in Threads |-> IdleThread],
   owner |-> [k \in Keys |-> 0],
   interleaved |-> FALSE]

\* store: per name, the store of a run that commits for that name only, fed
\* the commits made for the name; item and ok: what the last of them returned
\* there; commits: the commits made so far, up to MaxCommits.
NoAlone ==
  [store |-> [n \in AllNames |-> EmptyDatabase],
   item |-> NewItem("", 0, <<>>), ok |-> TRUE, commits |-> 0]

Init ==
  /\ db = EmptyDatabase
  /\ reads = NothingRead
  /\ writes = <<>>
  /\ call = NoCall
  /\ item = NewItem("", 0, <<>>)
  /\ out = NoOutput
  /\ consumer = [n \in Names |-> NoConsumer]
  /\ hist = NoHistory
  /\ threads = NoThreads
  /\ alone = NoAlone

\* The stored counter stays within the model's bound.
CounterInBound(name) ==
  LET raw == db[name \o "counter"]
  IN raw.kind # "none" => stoull(raw.s) < MaxCounter

\* Query(name, q).addNewResults(current_qd, item, calculate_diff) on an item
\* the caller constructed with item.epoch = epoch.
Commit(name, query, epoch, current_qd, calculate_diff) ==
  /\ out.form = "none"
  /\ CounterInBound(name)
  /\ \E r \in {addNewResults(Call(db), name, query,
                             current_qd, NewItem(name, epoch, <<>>),
                             calculate_diff)} :
        /\ db' = r.st.db
        /\ writes' = r.st.writes
        /\ reads' = r.st.reads
        /\ item' = r.item
        /\ call' = [NoCall EXCEPT
                      !.op = "addNewResults", !.name = name, !.query = query,
                      !.epoch = epoch, !.rows = current_qd,
                      !.calculate_diff = calculate_diff, !.ok = r.ok,
                      !.new_epoch = r.new_epoch, !.new_query = r.new_query,
                      !.counter = r.item.counter, !.failed = r.st.failed]
  /\ out' = NoOutput

AddNewResults(name, query, epoch, current_qd, calculate_diff) ==
  /\ Commit(name, query, epoch, current_qd, calculate_diff)
  /\ UNCHANGED <<consumer, hist, threads, alone>>

\* Query(name, q).addNewEvents(current_qd, item) on an item the caller
\* constructed with item.epoch = epoch.
CommitEvents(name, query, epoch, current_qd) ==
  /\ out.form = "none"
  /\ CounterInBound(name)
  /\ \E r \in {addNewEvents(Call(db), name, query,
                            current_qd, NewItem(name, epoch, <<>>))} :
        /\ db' = r.st.db
        /\ writes' = r.st.writes
        /\ reads' = r.st.reads
        /\ item' = r.item
        /\ call' = [NoCall EXCEPT
                      !.op = "addNewEvents", !.name = name, !.query = query,
                      !.epoch = epoch, !.rows = current_qd, !.ok = r.ok,
                      !.new_epoch = r.new_epoch, !.new_query = r.new_query,
                      !.counter = r.item.counter, !.failed = r.st.failed]
  /\ out' = NoOutput

AddNewEvents(name, query, epoch, current_qd) ==
  /\ CommitEvents(name, query, epoch, current_qd)
  /\ UNCHANGED <<consumer, hist, threads, alone>>

\* A snapshot item: the caller fills snapshot_results and commits nothing.
SnapshotItem(name, epoch, rows) ==
  /\ out.form = "none"
  /\ item' = NewItem(name, epoch, rows)
  /\ call' = [NoCall EXCEPT !.op = "snapshot", !.name = name,
                            !.epoch = epoch, !.rows = rows]
  /\ reads' = NothingRead
  /\ writes' = <<>>
  /\ out' = NoOutput
  /\ UNCHANGED <<db, consumer, hist, threads, alone>>

\* serializeQueryLogItemJSON(item, json_items) on an empty json_items.
SerializeJSON ==
  /\ out.form = "none"
  /\ call.op # "none"
  /\ call.ok
  /\ \E garbage \in Indeterminate :
       \E r \in {serializeQueryLogItemJSON(Observe(item, garbage), <<>>)} :
         out' = [form |-> "json", ok |-> r.ok, items |-> r.items]
  /\ UNCHANGED <<db, reads, writes, call, item, consumer, hist, threads, alone>>

\* serializeQueryLogItemAsEventsJSON(item, items) on an empty items.
SerializeEventsJSON ==
  /\ out.form = "none"
  /\ call.op # "none"
  /\ call.ok
  /\ \E garbage \in Indeterminate :
       \E r \in {serializeQueryLogItemAsEventsJSON(Observe(item, garbage),
                                                   <<>>)} :
         out' = [form |-> "events", ok |-> r.ok, items |-> r.items]
  /\ UNCHANGED <<db, reads, writes, call, item, consumer, hist, threads, alone>>

\* The caller is done with the rendered documents.
Logged ==
  /\ out.form # "none"
  /\ out' = NoOutput
  /\ UNCHANGED <<db, reads, writes, call, item, consumer, hist, threads, alone>>

Next ==
  \/ \E name \in Names, query \in Queries, epoch \in Epochs,
        current_qd \in QueryData, calculate_diff \in BOOLEAN :
       AddNewResults(name, query, epoch, current_qd, calculate_diff)
  \/ \E name \in Names, query \in Queries, epoch \in Epochs,
        current_qd \in QueryData :
       AddNewEvents(name, query, epoch, current_qd)
  \/ \E name \in Names, epoch \in Epochs, rows \in QueryData :
       SnapshotItem(name, epoch, rows)
  \/ SerializeJSON
  \/ SerializeEventsJSON
  \/ Logged

Spec == Init /\ [][Next]_vars

\* The differential schedule of one query text: every commit is an
\* addNewResults with calculate_diff, logged in the legacy form to a consumer.
DiffCommit(name, query, epoch, current_qd) ==
  /\ consumer[name].started => query = consumer[name].query
  /\ Commit(name, query, epoch, current_qd, TRUE)
  /\ UNCHANGED <<hist, threads, alone>>
  /\ \E garbage \in Indeterminate :
       consumer' =
         [consumer EXCEPT ![name] =
            ConsumerAfter(@, query, current_qd,
                          serializeQueryLogItemJSON(Observe(item', garbage),
                                                    <<>>).items)]

NextDiff ==
  \E name \in Names, query \in Queries, epoch \in Epochs,
     current_qd \in QueryData :
    DiffCommit(name, query, epoch, current_qd)

SpecDiff == Init /\ [][NextDiff]_vars

\* ----------------------------------------------- calls on a failing store
\* The values the caller's counter variable holds before the call.
CallerCounters == {0, MaxCounter + 2}

\* The caller holds nothing of an earlier call.
Idle == call.op = "none" /\ out.form = "none"

\* What a call r of an entry point leaves behind; counter is the counter the
\* caller holds afterwards.
Outcome(op, name, query, epoch, current_qd, calculate_diff, r, counter) ==
  /\ db' = r.st.db
  /\ writes' = r.st.writes
  /\ reads' = r.st.reads
  /\ item' = r.item
  /\ call' = [NoCall EXCEPT
                !.op = op, !.name = name, !.query = query, !.epoch = epoch,
                !.rows = current_qd, !.calculate_diff = calculate_diff,
                !.ok = r.ok, !.new_epoch = r.new_epoch,
                !.new_query = r.new_query, !.counter = counter,
                !.failed = r.st.failed]

\* addNewResults while the store fails the operations in faults.
FaultyAddNewResults(name, query, epoch, current_qd, calculate_diff, faults) ==
  /\ Idle
  /\ CounterInBound(name)
  /\ \E r \in {addNewResults(FaultyCall(db, faults), name, query, current_qd,
                             NewItem(name, epoch, <<>>), calculate_diff)} :
       Outcome("addNewResults", name, query, epoch, current_qd,
               calculate_diff, r, r.item.counter)
  /\ UNCHANGED <<out, consumer, hist, threads, alone>>

\* addNewEvents while the store fails the operations in faults.
FaultyAddNewEvents(name, query, epoch, current_qd, faults) ==
  /\ Idle
  /\ CounterInBound(name)
  /\ \E r \in {addNewEvents(FaultyCall(db, faults), name, query, current_qd,
                            NewItem(name, epoch, <<>>))} :
       Outcome("addNewEvents", name, query, epoch, current_qd, FALSE, r,
               r.item.counter)
  /\ UNCHANGED <<out, consumer, hist, threads, alone>>

\* Query(name, q).getQueryCounter(all_records, new_query).
GetQueryCounter(name, all_records, new_query) ==
  /\ Idle
  /\ \E r \in {getQueryCounter(Call(db), name, all_records, new_query)} :
       /\ reads' = r.st.reads
       /\ call' = [NoCall EXCEPT
                     !.op = "getQueryCounter", !.name = name,
                     !.all_records = all_records, !.new_query = new_query,
                     !.counter = r.counter]
  /\ UNCHANGED <<db, writes, item, out, consumer, hist, threads, alone>>

\* Query(name, q).incrementCounter(all_records, new_query, counter).
IncrementCounter(name, all_records, new_query) ==
  /\ Idle
  /\ CounterInBound(name)
  /\ \E r \in {incrementCounter(Call(db), name, all_records, new_query)} :
       /\ db' = r.st.db
       /\ writes' = r.st.writes
       /\ reads' = r.st.reads
       /\ call' = [NoCall EXCEPT
                     !.op = "incrementCounter", !.name = name,
                     !.all_records = all_records, !.new_query = new_query,
                     !.ok = r.ok, !.counter = r.counter]
  /\ UNCHANGED <<item, out, consumer, hist, threads, alone>>

\* Query(name, q).addNewResults(qd, epoch, counter) with the caller's
\* variable holding counter before the call.
AddNewResultsCounter(name, query, epoch, qd, counter) ==
  /\ Idle
  /\ CounterInBound(name)
  /\ \E r \in {addNewResultsCounter(Call(db), name, query, qd, epoch,
                                    counter)} :
       Outcome("addNewResultsCounter", name, query, epoch, qd, FALSE, r,
               r.counter)
  /\ UNCHANGED <<out, consumer, hist, threads, alone>>

\* The caller drops what the last call returned.
Forget ==
  /\ call.op # "none"
  /\ call' = NoCall
  /\ item' = NewItem("", 0, <<>>)
  /\ reads' = NothingRead
  /\ writes' = <<>>
  /\ UNCHANGED <<db, out, consumer, hist, threads, alone>>

NextStore ==
  \/ \E name \in Names, query \in Queries, epoch \in Epochs,
        current_qd \in QueryData, calculate_diff \in BOOLEAN,
        faults \in Faults :
       FaultyAddNewResults(name, query, epoch, current_qd, calculate_diff,
                           faults)
  \/ \E name \in Names, query \in Queries, epoch \in Epochs,
        current_qd \in QueryData, faults \in Faults :
       FaultyAddNewEvents(name, query, epoch, current_qd, faults)
  \/ \E name \in Names, all_records \in BOOLEAN, new_query \in BOOLEAN :
       GetQueryCounter(name, all_records, new_query)
  \/ \E name \in Names, all_records \in BOOLEAN, new_query \in BOOLEAN :
       IncrementCounter(name, all_records, new_query)
  \/ \E name \in Names, query \in Queries, epoch \in Epochs,
        qd \in QueryData, counter \in CallerCounters :
       AddNewResultsCounter(name, query, epoch, qd, counter)
  \/ Forget

SpecStore == Init /\ [][NextStore]_vars

\* ------------------------------------------------- commits that are logged
\* Some document carries a smaller epoch than the document logged before it;
\* prev is the epoch of the last document logged before docs (-1: none).
Backward(prev, docs) ==
  \E i \in 1..Len(docs) :
    docs[i].epoch < (IF i = 1 THEN prev ELSE docs[i - 1].epoch)

\* The caller's record after logging the legacy documents docs of a commit.
LogAfter(epoch, docs) ==
  [hist EXCEPT !.supplied = epoch,
               !.doc_epoch = docs[Len(docs)].epoch,
               !.backward = @ \/ Backward(hist.doc_epoch, docs)]

\* The legacy documents of an item.
LegacyDocuments(it, garbage) ==
  serializeQueryLogItemJSON(Observe(it, garbage), <<>>).items

\* An addNewResults commit, with an epoch not below the last one supplied,
\* logged in the legacy form.
LogResults(name, query, epoch, current_qd, calculate_diff) ==
  /\ epoch >= hist.supplied
  /\ Commit(name, query, epoch, current_qd, calculate_diff)
  /\ \E garbage \in Indeterminate :
       hist' = LogAfter(epoch, LegacyDocuments(item', garbage))
  /\ UNCHANGED <<consumer, threads, alone>>

\* An addNewEvents commit, with an epoch not below the last one supplied,
\* logged in the legacy form.
LogEvents(name, query, epoch, current_qd) ==
  /\ epoch >= hist.supplied
  /\ CommitEvents(name, query, epoch, current_qd)
  /\ \E garbage \in Indeterminate :
       hist' = LogAfter(epoch, LegacyDocuments(item', garbage))
  /\ UNCHANGED <<consumer, threads, alone>>

NextLog ==
  \/ \E name \in Names, query \in Queries, epoch \in Epochs,
        current_qd \in QueryData, calculate_diff \in BOOLEAN :
       LogResults(name, query, epoch, current_qd, calculate_diff)
  \/ \E name \in Names, query \in Queries, epoch \in Epochs,
        current_qd \in QueryData :
       LogEvents(name, query, epoch, current_qd)

SpecLog == Init /\ [][NextLog]_vars

\* ------------------------------------------- runs of commits of one caller
\* The commit continues the caller's run, or starts it.
InRun(op, epoch, query) ==
  /\ hist.n < MaxCommits
  /\ hist.n > 0 => (hist.op = op /\ hist.epoch = epoch /\ hist.query = query)

\* The caller's record after a commit of its run that left counter in the
\* item; the commit assigned a counter iff it wrote <name>counter.
RunAfter(op, epoch, query, assigned, counter) ==
  [hist EXCEPT !.op = op, !.epoch = epoch, !.query = query, !.n = @ + 1,
               !.assigned = assigned,
               !.last = IF assigned THEN counter ELSE @,
               !.before = IF assigned THEN hist.last ELSE @]

\* A run of addNewResults commits with one epoch and one query text.
RunResults(name, query, epoch, current_qd, calculate_diff) ==
  /\ InRun("addNewResults", epoch, query)
  /\ Commit(name, query, epoch, current_qd, calculate_diff)
  /\ hist' = RunAfter("addNewResults", epoch, query,
                      \E i \in 1..Len(writes') : writes'[i] = name \o "counter",
                      item'.counter)
  /\ UNCHANGED <<consumer, threads, alone>>

\* A run of addNewEvents commits with rows, one epoch and one query text.
RunEvents(name, query, epoch, current_qd) ==
  /\ InRun("addNewEvents", epoch, query)
  /\ current_qd # <<>>
  /\ CommitEvents(name, query, epoch, current_qd)
  /\ hist' = RunAfter("addNewEvents", epoch, query,
                      \E i \in 1..Len(writes') : writes'[i] = name \o "counter",
                      item'.counter)
  /\ UNCHANGED <<consumer, threads, alone>>

\* The commits made for the name before the run starts.
ResultsBeforeRun(name, query, epoch, current_qd, calculate_diff) ==
  /\ hist.n = 0
  /\ AddNewResults(name, query, epoch, current_qd, calculate_diff)

EventsBeforeRun(name, query, epoch, current_qd) ==
  /\ hist.n = 0
  /\ AddNewEvents(name, query, epoch, current_qd)

NextRun ==
  \/ \E name \in Names, query \in Queries, epoch \in Epochs,
        current_qd \in QueryData, calculate_diff \in BOOLEAN :
       ResultsBeforeRun(name, query, epoch, current_qd, calculate_diff)
  \/ \E name \in Names, query \in Queries, epoch \in Epochs,
        current_qd \in QueryData :
       EventsBeforeRun(name, query, epoch, current_qd)
  \/ \E name \in Names, query \in Queries, epoch \in Epochs,
        current_qd \in QueryData, calculate_diff \in BOOLEAN :
       RunResults(name, query, epoch, current_qd, calculate_diff)
  \/ \E name \in Names, query \in Queries, epoch \in Epochs,
        current_qd \in QueryData :
       RunEvents(name, query, epoch, current_qd)

SpecRun == Init /\ [][NextRun]_vars

\* ------------------------------------------------ the retry of a commit
\* The last call is an addNewResults that returned the failure of its epoch
\* write or of its counter write, after it had stored the result set.
PartialFailure ==
  /\ call.op = "addNewResults"
  /\ ~call.ok
  /\ \E i \in 1..Len(writes) : writes[i] = call.name
  /\ call.failed # <<>>
  /\ call.failed[Len(call.failed)] \in {"set " \o call.name \o "epoch",
                                        "set " \o call.name \o "counter"}

\* The caller commits the rows of the failed call again, on a store that
\* fails no operation.
Retry ==
  /\ PartialFailure
  /\ out.form = "none"
  /\ CounterInBound(call.name)
  /\ \E r \in {addNewResults(Call(db), call.name, call.query, call.rows,
                             NewItem(call.name, call.epoch, <<>>),
                             call.calculate_diff)} :
       Outcome("addNewResults", call.name, call.query, call.epoch, call.rows,
               call.calculate_diff, r, r.item.counter)
  /\ UNCHANGED <<out, consumer, hist, threads, alone>>

NextRetry ==
  \/ NextStore
  \/ Retry

SpecRetry == Init /\ [][NextRetry]_vars

\* ------------------------------ two addNewResults calls, operation by
\* operation.  Each call makes one store operation per step, on the store as
\* it is at that step; pc names the store operation it makes next.
Busy(f) == f.pc \notin {"idle", "returned"}

Other(t) == CHOOSE u \in Threads : u # t

\* The call about to make a store operation on the store as it is now.
View(t) == [threads.frame[t] EXCEPT !.st = Call(db)]

Returned(f) == [f EXCEPT !.pc = "returned"]

\* lines 170-197, once the query status is known: the differential needs the
\* rows of the last run; otherwise all rows are added rows.
afterStatus(f) ==
  IF ~f.new_query /\ f.calculate_diff
  THEN [f EXCEPT !.pc = "getPreviousQueryResults"]
  ELSE [f EXCEPT !.item.results.added = f.rows, !.pc = "setResults"]

\* lines 226-232: the counter of the primary result; getQueryCounter reads
\* the store only when neither all_records nor new_query is set.
afterFlush(f, name) ==
  IF f.done \/ ~(f.update_db \/ f.new_epoch \/ f.new_query) THEN Returned(f)
  ELSE IF f.new_epoch \/ f.new_query
  THEN [f EXCEPT !.item.counter =
                   getQueryCounter(f.st, name, f.new_epoch,
                                   f.new_query).counter,
                 !.pc = "setCounter"]
  ELSE [f EXCEPT !.pc = "getQueryCounter"]

\* lines 219-224: the counter of the previous epoch's remaining diff.
afterStore(f, name) ==
  IF f.done THEN Returned(f)
  ELSE IF f.new_epoch /\ ~DiffEmpty(f.item.previous_remaining)
  THEN [f EXCEPT !.pc = "getPreviousRemainingCounter"]
  ELSE afterFlush(f, name)

\* line 199: if (update_db).
afterDiff(f, name) ==
  IF f.done THEN Returned(f)
  ELSE IF f.update_db THEN [f EXCEPT !.pc = "setResults"]
  ELSE afterStore(f, name)

\* line 108: previous_epoch = getPreviousEpoch(), the first store operation
\* of a call with the given arguments.
stepGetPreviousEpoch(st, name, query, epoch, rows, calculate_diff) ==
  LET previous == getPreviousEpoch(st, name)
  IN [IdleThread EXCEPT
        !.pc = "isQueryNameInDatabase", !.query = query, !.epoch = epoch,
        !.rows = rows, !.calculate_diff = calculate_diff,
        !.st = previous.st,
        !.item = [NewItem(name, epoch, <<>>) EXCEPT
                    !.previous_epoch = previous.epoch]]

\* lines 109-116: the scan of the stored names and the branch it selects.
stepIsQueryNameInDatabase(f, name) ==
  LET known == isQueryNameInDatabase(f.st, name)
  IN IF ~known.found
     THEN [f EXCEPT !.st = known.st, !.new_epoch = TRUE, !.new_query = TRUE,
                    !.pc = "saveQuery"]
     ELSE IF f.item.previous_epoch # f.epoch
     THEN afterStatus([f EXCEPT !.st = known.st, !.new_epoch = TRUE])
     ELSE [f EXCEPT !.st = known.st, !.pc = "isNewQuery"]

\* lines 116-120: else if (isNewQuery()).
stepIsNewQuery(f, name) ==
  LET altered == isNewQuery(f.st, name, f.query)
  IN IF altered.changed
     THEN [f EXCEPT !.st = altered.st, !.new_query = TRUE,
                    !.pc = "saveQuery"]
     ELSE afterStatus([f EXCEPT !.st = altered.st])

\* lines 114, 120: saveQuery(name_, query_).
stepSaveQuery(f, name) ==
  afterStatus([f EXCEPT !.st = saveQuery(f.st, name, f.query)])

\* lines 171-193.
stepGetPreviousQueryResults(f, name) ==
  afterDiff(addNewResultsPrevious(f, getPreviousQueryResults(f.st, name),
                                  f.rows),
            name)

\* lines 206-210: setDatabaseValue(kQueries, name_, json).
stepSetResults(f, name) ==
  LET g == returnUnlessOk(f, setDatabaseValue(f.st, name,
                                              serializeQueryDataJSON(f.rows)))
  IN IF g.done THEN Returned(g) ELSE [g EXCEPT !.pc = "setEpoch"]

\* lines 212-216: setDatabaseValue(kQueries, name_ + "epoch", ...).
stepSetEpoch(f, name) ==
  afterStore(returnUnlessOk(f, setDatabaseValue(f.st, name \o "epoch",
                                    Text(to_string(f.item.epoch)))),
             name)

\* lines 220, 125: counter = getQueryCounter(false, false), with counter
\* bound to item.previous_remaining_counter.
stepGetPreviousRemainingCounter(f, name) ==
  LET got == getQueryCounter(f.st, name, FALSE, FALSE)
  IN [f EXCEPT !.st = got.st,
               !.item.previous_remaining_counter = got.counter,
               !.pc = "setPreviousRemainingCounter"]

\* lines 220-223, 126: the write of incrementCounter(false, false, ...).
stepSetPreviousRemainingCounter(f, name) ==
  afterFlush(returnUnlessOk(f, setDatabaseValue(f.st, name \o "counter",
                 Text(to_string(f.item.previous_remaining_counter)))),
             name)

\* lines 227, 125: counter = getQueryCounter(new_epoch, new_query) when it
\* reads the stored counter, with counter bound to item.counter.
stepGetQueryCounter(f, name) ==
  LET got == getQueryCounter(f.st, name, f.new_epoch, f.new_query)
  IN [f EXCEPT !.st = got.st, !.item.counter = got.counter,
               !.pc = "setCounter"]

\* lines 227-231, 126: the write of incrementCounter(new_epoch, new_query,
\* item.counter).
stepSetCounter(f, name) ==
  [returnUnlessOk(f, setDatabaseValue(f.st, name \o "counter",
                                      Text(to_string(f.item.counter))))
     EXCEPT !.pc = "returned", !.assigned = TRUE]

\* The store and the record of the calls after call t made the store
\* operation that leaves it as f.
Advance(t, f) ==
  /\ db' = f.st.db
  /\ threads' =
       [threads EXCEPT
          !.frame[t] = [f EXCEPT !.st = Call(EmptyDatabase)],
          !.owner = [k \in Keys |-> IF Written(f.st, k) THEN t ELSE @[k]],
          !.interleaved = @ \/ Busy(threads.frame[Other(t)])]
  /\ UNCHANGED <<reads, writes, call, item, out, consumer, hist, alone>>

\* Call t, made for the name, makes the store operation pc next.
At(t, name, pc) ==
  /\ threads.frame[t].pc = pc
  /\ pc # "idle" => threads.frame[t].item.name = name

\* The results the two calls commit: no row twice.
RaceRows ==
  {qd \in QueryData : \A i, j \in 1..Len(qd) : qd[i] = qd[j] => i = j}

\* Query(name, query).addNewResults(rows, item, calculate_diff) is called;
\* call 1 is the call that makes its first store operation first.
ThreadCall(t, name, query, epoch, rows, calculate_diff) ==
  /\ At(t, name, "idle")
  /\ t # 1 => ~At(1, name, "idle")
  /\ CounterInBound(name)
  /\ Advance(t, stepGetPreviousEpoch(Call(db), name, query, epoch, rows,
                                     calculate_diff))

ThreadIsQueryNameInDatabase(t, name) ==
  /\ At(t, name, "isQueryNameInDatabase")
  /\ Advance(t, stepIsQueryNameInDatabase(View(t), name))

ThreadIsNewQuery(t, name) ==
  /\ At(t, name, "isNewQuery")
  /\ Advance(t, stepIsNewQuery(View(t), name))

ThreadSaveQuery(t, name) ==
  /\ At(t, name, "saveQuery")
  /\ Advance(t, stepSaveQuery(View(t), name))

ThreadGetPreviousQueryResults(t, name) ==
  /\ At(t, name, "getPreviousQueryResults")
  /\ Advance(t, stepGetPreviousQueryResults(View(t), name))

ThreadSetResults(t, name) ==
  /\ At(t, name, "setResults")
  /\ Advance(t, stepSetResults(View(t), name))

ThreadSetEpoch(t, name) ==
  /\ At(t, name, "setEpoch")
  /\ Advance(t, stepSetEpoch(View(t), name))

ThreadGetPreviousRemainingCounter(t, name) ==
  /\ At(t, name, "getPreviousRemainingCounter")
  /\ Advance(t, stepGetPreviousRemainingCounter(View(t), name))

ThreadSetPreviousRemainingCounter(t, name) ==
  /\ At(t, name, "setPreviousRemainingCounter")
  /\ Advance(t, stepSetPreviousRemainingCounter(View(t), name))

ThreadGetQueryCounter(t, name) ==
  /\ At(t, name, "getQueryCounter")
  /\ Advance(t, stepGetQueryCounter(View(t), name))

ThreadSetCounter(t, name) ==
  /\ At(t, name, "setCounter")
  /\ Advance(t, stepSetCounter(View(t), name))

\* The one commit made for the name before the two calls.
CommitBefore(name, query, epoch, current_qd) ==
  /\ call.op = "none"
  /\ \A t \in Threads : At(t, name, "idle")
  /\ AddNewResults(name, query, epoch, current_qd, FALSE)

NextRace ==
  \/ \E name \in Names, query \in Queries, epoch \in Epochs,
        current_qd \in RaceRows :
       CommitBefore(name, query, epoch, current_qd)
  \/ \E t \in Threads, name \in Names, query \in Queries, epoch \in Epochs,
        rows \in RaceRows :
       ThreadCall(t, name, query, epoch, rows, TRUE)
  \/ \E t \in Threads, name \in Names : ThreadIsQueryNameInDatabase(t, name)
  \/ \E t \in Threads, name \in Names : ThreadIsNewQuery(t, name)
  \/ \E t \in Threads, name \in Names : ThreadSaveQuery(t, name)
  \/ \E t \in Threads, name \in Names :
       ThreadGetPreviousQueryResults(t, name)
  \/ \E t \in Threads, name \in Names : ThreadSetResults(t, name)
  \/ \E t \in Threads, name \in Names : ThreadSetEpoch(t, name)
  \/ \E t \in Threads, name \in Names :
       ThreadGetPreviousRemainingCounter(t, name)
  \/ \E t \in Threads, name \in Names :
       ThreadSetPreviousRemainingCounter(t, name)
  \/ \E t \in Threads, name \in Names : ThreadGetQueryCounter(t, name)
  \/ \E t \in Threads, name \in Names : ThreadSetCounter(t, name)

SpecRace == Init /\ [][NextRace]_vars

\* ------------------------------------------------ commits for two names
\* A commit for one of the names on the store the names share and, with the
\* same arguments, on the store of a run that commits for that name only.
NameCommit(name, query, epoch, current_qd, calculate_diff) ==
  /\ alone.commits < MaxCommits
  /\ Commit(name, query, epoch, current_qd, calculate_diff)
  /\ \E a \in {addNewResults(Call(alone.store[name]), name, query,
                             current_qd, NewItem(name, epoch, <<>>),
                             calculate_diff)} :
       alone' = [alone EXCEPT !.store[name] = a.st.db, !.item = a.item,
                              !.ok = a.ok, !.commits = @ + 1]
  /\ UNCHANGED <<consumer, hist, threads>>

NextNames ==
  \E name \in AllNames, query \in Queries, epoch \in Epochs,
     current_qd \in QueryData, calculate_diff \in BOOLEAN :
    NameCommit(name, query, epoch, current_qd, calculate_diff)

SpecNames == Init /\ [][NextNames]_vars

TypeOK ==
  /\ call.op \in {"none", "addNewResults", "addNewEvents", "snapshot",
                  "getQueryCounter", "incrementCounter",
                  "addNewResultsCounter"}
  /\ out.form \in {"none", "json", "events"}
  /\ \A k \in Keys : db[k].kind \in {"none", "text", "json"}

\* ==================================================================== claims
\* The last call found none of the four keys of its query name in the store.
NoPersistedState ==
  reads.scanned /\ reads.keys \cap KeysOf(call.name) = {}

\* The epoch a database holds for a name, as getPreviousEpoch reads it.
PersistedEpoch(database, name) == getPreviousEpoch(Call(database), name).epoch

\* The values a read of a uint64_t member yields.
ValuesOf(member) ==
  IF member = Uninitialized THEN Indeterminate ELSE {member}

IsDiffDocument(d) == "diffResults" \in d.members

IsSnapshotDocument(d) == "snapshot" \in d.members /\ d.action = "snapshot"

\* C1: for a query name with no persisted state, the first addNewResults
\* commit (any epoch, any calculate_diff) succeeds with newEpoch and newQuery
\* both true, writes the configured query text under query.<name>, and
\* returns added = all current rows, removed = empty.
C1_FirstCommit ==
  (call.op = "addNewResults" /\ NoPersistedState) =>
    /\ call.ok
    /\ call.new_epoch
    /\ call.new_query
    /\ \E i \in 1..Len(writes) : writes[i] = "query." \o call.name
    /\ db["query." \o call.name] = Text(call.query)
    /\ item.results = [added |-> call.rows, removed |-> <<>>]

C1_Witness ==
  /\ call.op = "addNewResults"
  /\ NoPersistedState
  /\ ~call.calculate_diff
  /\ call.epoch # 0
  /\ Len(call.rows) = 2

\* The commit log of the differential schedule of the last call's name.
Schedule ==
  IF call.name \in Names THEN consumer[call.name] ELSE NoConsumer

\* The result set the last call read from the store.
PreviousRows == reads.value[call.name].rows

\* cur holds the rows of old and exactly one more row, r.
OneMoreRow(cur, old, r) ==
  SeqToBag(cur) = BagPlus(SeqToBag(old), SeqToBag(<<r>>))

\* The second commit of a schedule, in the epoch of the first, with the rows
\* of the first (which were not empty) and one more.
SecondCommitOneMore(r) ==
  /\ Schedule.commits = 2
  /\ ~call.new_epoch
  /\ reads.value[call.name].kind = "json"
  /\ PreviousRows # <<>>
  /\ OneMoreRow(call.rows, PreviousRows, r)

\* C2 as claimed: the first commit (epoch 1, non-empty rows) returns counter
\* 1, the next one, with one extra row, returns exactly that row as added,
\* nothing removed, and counter 2.
C2_Claimed ==
  /\ (Schedule.commits = 1 /\ call.epoch = 1 /\ call.rows # <<>>) =>
       item.counter = 1
  /\ \A r \in RowValues :
       (SecondCommitOneMore(r) /\ call.epoch = 1) =>
         /\ item.results = [added |-> <<r>>, removed |-> <<>>]
         /\ item.counter = 2

\* C2 amended: the first commit returns counter 0 and the next one, with one
\* extra row, returns exactly that row as added, nothing removed, and counter
\* 1; every later changed commit in the same epoch returns the stored counter
\* plus one.
C2_Counters ==
  /\ (Schedule.commits = 1 /\ call.epoch = 1 /\ call.rows # <<>>) =>
       item.counter = 0
  /\ \A r \in RowValues :
       (SecondCommitOneMore(r) /\ call.epoch = 1) =>
         /\ item.results = [added |-> <<r>>, removed |-> <<>>]
         /\ item.counter = 1
  /\ Schedule.commits = 1 => item.counter = 0
  /\ (Schedule.commits >= 2 /\ ~call.new_epoch /\ ~DiffEmpty(item.results)) =>
       /\ reads.value[call.name \o "counter"].kind = "text"
       /\ item.counter = stoull(reads.value[call.name \o "counter"].s) + 1
       /\ db[call.name \o "counter"] = Text(to_string(item.counter))

C2_Witness ==
  /\ call.epoch = 1
  /\ SecondCommitOneMore("r2")
  /\ item.counter = 1

\* The document of the current pass in a legacy rendering.
CurrentDocument == out.items[Len(out.items)]

\* The last call was an addNewResults commit of a first-encounter or altered
\* query, and its item is rendered in the legacy form.
NewQueryRendered ==
  /\ call.op = "addNewResults"
  /\ call.new_query
  /\ out.form = "json"

\* C3 as claimed: the legacy rendering of the item of a first-encounter (or
\* new/altered-query) commit is a snapshot document: action "snapshot" and a
\* snapshot array of all current rows, no diffResults object.
C3_Claimed ==
  NewQueryRendered =>
    /\ out.items # <<>>
    /\ IsSnapshotDocument(CurrentDocument)
    /\ CurrentDocument.snapshot = call.rows
    /\ ~IsDiffDocument(CurrentDocument)

\* C3 amended: with at least one current row that rendering is a differential
\* document: a diffResults object with added = all current rows and removed
\* empty, and no action "snapshot"; it is a snapshot document, with the
\* item's (empty) snapshot_results, only when there are no current rows.
C3_Rendering ==
  NewQueryRendered =>
    /\ out.ok
    /\ out.items # <<>>
    /\ IF call.rows # <<>>
       THEN /\ IsDiffDocument(CurrentDocument)
            /\ CurrentDocument.added = call.rows
            /\ CurrentDocument.removed = <<>>
            /\ ~IsSnapshotDocument(CurrentDocument)
       ELSE /\ IsSnapshotDocument(CurrentDocument)
            /\ CurrentDocument.snapshot = <<>>
            /\ ~IsDiffDocument(CurrentDocument)

C3_Witness ==
  /\ NewQueryRendered
  /\ ~call.new_epoch
  /\ Len(call.rows) = 2
  /\ IsDiffDocument(CurrentDocument)

\* A step of Spec that is a call of addNewResults.
IsAddNewResults ==
  out.form = "none" /\ out'.form = "none" /\ call'.op = "addNewResults"

\* C4: an addNewResults commit with calculate_diff whose epoch is the
\* persisted epoch, whose query text is the persisted text and whose rows are
\* the persisted result set (as a multiset) writes nothing to the store and
\* returns an empty primary diff.
C4_NoChangeNoWrite ==
  [][(/\ IsAddNewResults
      /\ call'.calculate_diff
      /\ PersistedEpoch(db, call'.name) = call'.epoch
      /\ db["query." \o call'.name] = Text(call'.query)
      /\ db[call'.name].kind = "json"
      /\ SeqToBag(db[call'.name].rows) = SeqToBag(call'.rows))
     => (/\ call'.ok
         /\ writes' = <<>>
         /\ db' = db
         /\ DiffEmpty(item'.results))]_vars

C4_Witness ==
  /\ call.op = "addNewResults"
  /\ call.calculate_diff
  /\ ~call.new_epoch
  /\ ~call.new_query
  /\ reads.value[call.name].kind = "json"
  /\ SeqToBag(PreviousRows) = SeqToBag(call.rows)
  /\ Len(call.rows) = 2
  /\ writes = <<>>

\* The last call was a commit through one of the two entry points.
IsCommit == call.op \in {"addNewResults", "addNewEvents"} /\ call.ok

\* The rows of a differential that a document carries.
CarriesDiffRows(d) ==
  d.added # <<>> \/ d.removed # <<>> \/ d.action \in {"added", "removed"}

\* The number of rows in a differential.
Size(dr) == Len(dr.removed) + Len(dr.added)

AllCurrentRows == [added |-> call.rows, removed |-> <<>>]

\* C5 as claimed: a log item, and each document rendered from it, whose
\* counter is 0 carries an empty diff.
C5_Claimed ==
  /\ (IsCommit /\ item.counter = 0) => DiffEmpty(item.results)
  /\ \A i \in 1..Len(out.items) :
       out.items[i].counter = 0 => ~CarriesDiffRows(out.items[i])

\* C5 amended: a log item, and each document rendered from it, whose counter
\* is 0 carries no removed rows, and its added rows are none or all current
\* rows of the commit: a counter of 0 never marks a partial differential.
C5_ZeroCounter ==
  /\ (IsCommit /\ item.counter = 0) =>
       (DiffEmpty(item.results) \/ item.results = AllCurrentRows)
  /\ out.form = "json" =>
       \A i \in 1..Len(out.items) :
         (out.items[i].counter = 0 /\ IsDiffDocument(out.items[i])) =>
           /\ out.items[i].removed = <<>>
           /\ out.items[i].added = call.rows
  /\ out.form = "events" =>
       \A i \in 1..Len(out.items) :
         (out.items[i].counter = 0 /\ CarriesDiffRows(out.items[i])) =>
           /\ out.items[i].action = "added"
           /\ IF i <= Size(item.previous_remaining)
              THEN item.previous_remaining = AllCurrentRows
              ELSE item.results = AllCurrentRows

C5_Witness ==
  /\ call.op = "addNewResults"
  /\ call.new_epoch
  /\ ~call.new_query
  /\ item.counter = 0
  /\ ~DiffEmpty(item.previous_remaining)
  /\ Len(call.rows) = 2
  /\ out.form = "json"
  /\ out.items[2].counter = 0
  /\ out.items[2].added = call.rows

\* C6: over addNewResults commits with calculate_diff and one query text, the
\* consumer that starts from the rows of the first commit and applies, in
\* emission order, only the differentials of documents with a counter other
\* than 0 holds after every commit exactly the rows of that commit.
C6_ConsumerInSync ==
  \A n \in Names :
    consumer[n].started =>
      /\ call.name = n
      /\ call.ok
      /\ consumer[n].view = SeqToBag(call.rows)

C6_Witness ==
  /\ Schedule.commits = 3
  /\ call.new_epoch
  /\ item.counter = 0
  /\ item.previous_remaining.added # <<>>
  /\ item.previous_remaining.removed # <<>>
  /\ item.previous_remaining_counter = 2
  /\ Schedule.view = SeqToBag(call.rows)

\* The last call was an addNewResults commit with calculate_diff, of a known
\* query in a new epoch, that found a non-empty result set in the store.
EpochChangeOverRows ==
  /\ call.op = "addNewResults"
  /\ call.ok
  /\ call.calculate_diff
  /\ call.new_epoch
  /\ ~call.new_query
  /\ reads.value[call.name].kind = "json"
  /\ PreviousRows # <<>>

\* The epoch the last call read from the store.
EpochRead ==
  LET raw == reads.value[call.name \o "epoch"]
  IN IF raw.kind = "text" THEN stoull(raw.s) ELSE 0

PreviousPass(d) ==
  /\ d.epoch = EpochRead
  /\ d.counter \in ValuesOf(item.previous_remaining_counter)

CurrentPass(d) == d.epoch = call.epoch /\ d.counter = item.counter

C8_Claimed ==
  out.form = "json" =>
    /\ out.ok
    /\ Len(out.items) = IF DiffEmpty(item.previous_remaining) THEN 1 ELSE 2

\* C9 as claimed: serializeQueryLogItemAsEvents succeeds for every item with
\* a non-empty primary diff and emits one event per primary added or removed
\* row, also when previous_remaining and snapshot_results are empty.
C9_Claimed ==
  (out.form = "events" /\ ~DiffEmpty(item.results)) =>
    /\ out.ok
    /\ Len(out.items) >= Size(item.results)
    /\ \A i \in 1..Size(item.results) :
         LET d == out.items[Len(out.items) - Size(item.results) + i]
         IN /\ d.action \in {"added", "removed"}
            /\ d.columns = (item.results.removed \o item.results.added)[i]

\* A document without any row.
EmptyDocument(d) ==
  d.added = <<>> /\ d.removed = <<>> /\ d.snapshot = <<>> /\ d.columns = ""

\* C10 as claimed: in both forms an item with an empty primary diff and empty
\* snapshot_results yields a failure status and no document; an empty
\* document is never produced.
C10_Claimed ==
  /\ (out.form # "none" /\ DiffEmpty(item.results)
        /\ item.snapshot_results = <<>>) =>
       (~out.ok /\ out.items = <<>>)
  /\ \A i \in 1..Len(out.items) : ~EmptyDocument(out.items[i])

\* The counter the last call found in the store (0: none, or not read).
CounterRead ==
  LET raw == reads.value[call.name \o "counter"]
  IN IF raw.kind = "text" THEN stoull(raw.s) ELSE 0

\* C11 as claimed: when a store read or write fails during addNewResults or
\* addNewEvents, the commit returns a failure status: no store failure is
\* followed by a success return.
C11_Claimed ==
  (call.op \in {"addNewResults", "addNewEvents"} /\ call.failed # <<>>) =>
    ~call.ok

\* C12 as claimed: getQueryCounter returns 0 if all_records, else 1 if
\* new_query, else 1 + the persisted counter, an absent counter counting as
\* 0; incrementCounter persists that value under <name>counter.
C12_Claimed ==
  call.op \in {"getQueryCounter", "incrementCounter"} =>
    /\ call.counter = IF call.all_records THEN 0
                      ELSE IF call.new_query THEN 1
                      ELSE 1 + CounterRead
    /\ call.op = "incrementCounter" =>
         db[call.name \o "counter"] = Text(to_string(call.counter))

\* C13 as claimed: addNewResults(qd, epoch, counter) returns in counter the
\* execution counter the commit assigned and persisted under <name>counter.
C13_Claimed ==
  (call.op = "addNewResultsCounter" /\ call.ok) =>
    /\ db[call.name \o "counter"].kind = "text"
    /\ call.counter = stoull(db[call.name \o "counter"].s)
    /\ call.counter = item.counter

\* The last call was a commit that the code treats as without change: a
\* differential commit in the stored epoch of a known query with an empty
\* diff (update_db is cleared).
NoChangeCommit ==
  /\ call.op = "addNewResults"
  /\ call.ok
  /\ call.calculate_diff
  /\ ~call.new_epoch
  /\ ~call.new_query
  /\ DiffEmpty(item.results)

C15_Claimed ==
  (hist.op = "addNewEvents" /\ hist.n >= 2) =>
    /\ call.ok
    /\ hist.assigned
    /\ ~call.new_epoch
    /\ hist.last > hist.before
    /\ hist.last = CounterRead + 1

\* The number of copies of row r in the sequence s.
Count(s, r) == Cardinality({i \in 1..Len(s) : s[i] = r})

Monus(a, b) == IF a > b THEN a - b ELSE 0

\* dr holds, for every row, the copies prev has beyond cur as removed and the
\* copies cur has beyond prev as added.
MultiplicityLaw(dr, prev, cur) ==
  \A r \in RowValues :
    /\ Count(dr.removed, r) = Monus(Count(prev, r), Count(cur, r))
    /\ Count(dr.added, r) = Monus(Count(cur, r), Count(prev, r))

\* The last call was a successful differential commit of a known query.
DifferentialCommit ==
  /\ call.op = "addNewResults"
  /\ call.ok
  /\ call.calculate_diff
  /\ ~call.new_query

\* C16: a differential addNewResults commit of a known query reads the
\* persisted result set; in a new epoch previous_remaining is its diff
\* against the current rows, the primary result is all current rows added and
\* none removed, and the full current rows are persisted; in the same epoch
\* the primary result is that diff and previous_remaining stays empty.
C16_DiffLaw ==
  DifferentialCommit =>
    /\ reads.value[call.name].kind = "json"
    /\ IF call.new_epoch
       THEN /\ MultiplicityLaw(item.previous_remaining, PreviousRows,
                               call.rows)
            /\ item.results = AllCurrentRows
            /\ db[call.name] = serializeQueryDataJSON(call.rows)
       ELSE /\ MultiplicityLaw(item.results, PreviousRows, call.rows)
            /\ DiffEmpty(item.previous_remaining)

C16_Witness ==
  /\ DifferentialCommit
  /\ call.new_epoch
  /\ PreviousRows = <<"r1", "r1">>
  /\ call.rows = <<"r1", "r2">>
  /\ item.previous_remaining = [added |-> <<"r2">>, removed |-> <<"r1">>]
  /\ db[call.name].rows = call.rows

C18_Claimed == ~hist.backward

\* C19 as claimed: after a successful commit through either entry point that
\* wrote the result set under <name>, the commit's epoch is stored under
\* <name>epoch; after a successful addNewResults the stored epoch is the
\* commit's and the stored result set holds the current rows.
C19_Claimed ==
  IsCommit =>
    /\ Written([writes |-> writes], call.name) =>
         /\ Written([writes |-> writes], call.name \o "epoch")
         /\ db[call.name \o "epoch"] = Text(to_string(call.epoch))
    /\ call.op = "addNewResults" =>
         /\ db[call.name \o "epoch"] = Text(to_string(call.epoch))
         /\ db[call.name].kind = "json"
         /\ SeqToBag(db[call.name].rows) = SeqToBag(call.rows)

\* C20 as claimed: after every successful commit for a name configured with a
\* query text, that text is stored under query.<name>, also when the epoch
\* and the query text change in the same commit.
C20_Claimed ==
  IsCommit => db["query." \o call.name] = Text(call.query)

\* ------------------------------------------------------------------- C21
\* The step from a failed addNewResults that left partial writes to its
\* retry.
RetryStep == PartialFailure /\ call'.op = "addNewResults"

\* C21: when addNewResults fails on its epoch write or its counter write,
\* the result set it stored before remains in the store, and the retry with
\* the same rows reports the added and removed rows the failed call computed.
C21_Claimed ==
  [][/\ PartialFailure =>
          db[call.name] = serializeQueryDataJSON(call.rows)
     /\ RetryStep =>
          /\ item'.results = item.results
          /\ item'.previous_remaining = item.previous_remaining]_vars

\* ------------------------------------------------------------------- C22
BothReturned == \A t \in Threads : threads.frame[t].pc = "returned"

\* Both calls were assigned the same counter value.
SameCounter ==
  /\ \A t \in Threads : threads.frame[t].assigned
  /\ threads.frame[1].item.counter = threads.frame[2].item.counter

\* The stored result set, epoch and counter were not all written last by the
\* same commit.
MixedProvenance ==
  \E name \in Names :
    \/ threads.owner[name] # threads.owner[name \o "epoch"]
    \/ threads.owner[name] # threads.owner[name \o "counter"]

\* The two calls were made with the same epoch and the same query text.
SameSchedule ==
  /\ threads.frame[1].epoch = threads.frame[2].epoch
  /\ threads.frame[1].query = threads.frame[2].query

\* C22 as claimed: when one of two addNewResults calls for a name ran wholly
\* before the other, the two are not assigned the same counter value and the
\* stored result set, epoch and counter come from one commit.
C22_Claimed ==
  (BothReturned /\ ~threads.interleaved) =>
    (~SameCounter /\ ~MixedProvenance)

\* C22: two addNewResults calls for a name with the same epoch and query
\* text, one wholly before the other, are not assigned the same counter
\* value and leave a stored result set, epoch and counter that come from one
\* commit.
C22_Serial ==
  (BothReturned /\ ~threads.interleaved /\ SameSchedule) =>
    (~SameCounter /\ ~MixedProvenance)

\* Interleaved store operations of two such calls end with both assigned the
\* same counter value and with the three keys written by different commits.
C22_Witness ==
  /\ BothReturned
  /\ threads.interleaved
  /\ SameSchedule
  /\ SameCounter
  /\ MixedProvenance

\* ------------------------------------------------------------------- C23
\* C23: whatever commits were made for another name, a commit for a name
\* returns the status and the item, and leaves the values of the name's four
\* keys, that it does in a run of that name's commits alone.
C23_Claimed ==
  call.op = "addNewResults" =>
    /\ call.ok = alone.ok
    /\ item = alone.item
    /\ \A k \in KeysOf(call.name) : db[k] = alone.store[call.name][k]

====
